---------------------------- MODULE Spec2Model ----------------------------
(***************************************************************************)
(* Model of ztf_analysis.py: the ZTFAnalyzer class (light-curve            *)
(* acquisition, the brightness, fading and colour-evolution analyzers,     *)
(* analyze_source) and the batch driver main().                            *)
(*                                                                         *)
(* Units.  A magnitude is an integer number of hundredths of a magnitude   *)
(* (15.5 mag is 1550), a time is an integer number of days (MJD).  Every   *)
(* derived quantity (mean, slope, interpolated magnitude) is an exact      *)
(* fraction [num, den]; den = 0 encodes the IEEE special values: 0/0 is    *)
(* not-a-number and +1/0, -1/0 are the infinities.                         *)
(***************************************************************************)
EXTENDS Integers, Sequences, FiniteSets, TLC

VARIABLES
    pc,             \* control position of the running call
    lc,             \* the light curve under analysis (lc_dict / lc_data)
    out,            \* what the last call returned (or the exception it raised)
    use_real_data,  \* ZTFAnalyzer.use_real_data
    has_requests,   \* module-level HAS_REQUESTS
    net,            \* the outcome of the last network attempt
    hash_salt,      \* the process's string-hash randomisation (PYTHONHASHSEED)
    np_seed,        \* the seed last given to the global numpy generator
    sources_df,     \* main(): whether filtered_sources.csv exists, and its rows
    idx,            \* main(): number of catalog rows already analysed
    results,        \* main(): the list `results`
    acquired,       \* main(): per loop pass, whether the query returned a light curve
    brightness,     \* analyze_source: local `brightness` of the last call
    fading,         \* analyze_source: local `fading` of the last call
    color_evol,     \* analyze_source: local `color_evol` of the last call
    report,         \* main(): what the reporting section computed
    synth_log       \* every synthetic light curve returned so far, with its object
                    \* name and the hash randomisation of the process that made it

vars == <<pc, lc, out, use_real_data, has_requests, net, hash_salt, np_seed,
          sources_df, idx, results, acquired, brightness, fading, color_evol, report,
          synth_log>>

----------------------------------------------------------------------------
(* Exact fractions with the IEEE special values                            *)

Abs(x) == IF x < 0 THEN -x ELSE x

Sgn(x) == IF x < 0 THEN -1 ELSE IF x > 0 THEN 1 ELSE 0

RECURSIVE GCD(_, _)
GCD(a, b) == IF b = 0 THEN a ELSE GCD(b, a % b)

\* The fraction n/d in lowest terms with a non-negative denominator.
R(n, d) ==
    IF d = 0 THEN [num |-> Sgn(n), den |-> 0]
    ELSE LET g == GCD(Abs(n), Abs(d))
         IN  [num |-> Sgn(d) * (n \div g), den |-> Abs(d) \div g]

RInt(n) == [num |-> n, den |-> 1]

NaN == [num |-> 0, den |-> 0]

IsNaN(a) == a.den = 0 /\ a.num = 0

IsInf(a) == a.den = 0 /\ a.num # 0

IsFinite(a) == a.den # 0

RNeg(a) == [num |-> -a.num, den |-> a.den]

RAdd(a, b) ==
    IF IsNaN(a) \/ IsNaN(b) THEN NaN
    ELSE IF IsInf(a) /\ IsInf(b) THEN (IF a.num = b.num THEN a ELSE NaN)
    ELSE IF IsInf(a) THEN a
    ELSE IF IsInf(b) THEN b
    ELSE LET g == GCD(a.den, b.den)
         IN  R(a.num * (b.den \div g) + b.num * (a.den \div g),
               (a.den \div g) * b.den)

RSub(a, b) == RAdd(a, RNeg(b))

RMul(a, b) ==
    IF ~IsFinite(a) \/ ~IsFinite(b) THEN R(a.num * b.num, 0)
    ELSE LET g1 == GCD(Abs(a.num), b.den)
             g2 == GCD(Abs(b.num), a.den)
         IN  R((a.num \div g1) * (b.num \div g2), (a.den \div g2) * (b.den \div g1))

\* IEEE division: x/0 is an infinity of x's sign, 0/0 is not-a-number.
RDiv(a, b) ==
    IF IsNaN(a) \/ IsNaN(b) THEN NaN
    ELSE IF IsFinite(b) /\ b.num = 0
         THEN [num |-> Sgn(a.num), den |-> 0]
    ELSE IF IsInf(b) THEN (IF IsInf(a) THEN NaN ELSE RInt(0))
    ELSE RMul(a, [num |-> Sgn(b.num) * b.den, den |-> Abs(b.num)])

\* Comparisons; every comparison with not-a-number is false.
RLt(a, b) ==
    /\ ~IsNaN(a)
    /\ ~IsNaN(b)
    /\ IF IsInf(a) /\ IsInf(b) THEN a.num < b.num
       ELSE a.num * b.den < b.num * a.den

RGt(a, b) == RLt(b, a)

RLe(a, b) == ~IsNaN(a) /\ ~IsNaN(b) /\ (a = b \/ RLt(a, b))

RAbs(a) == [num |-> Abs(a.num), den |-> a.den]

\* The sequence s as an explicit tuple (a function written [i \in 1..n |-> e]
\* is otherwise re-evaluated at every application).
Tuple(s) == <<>> \o s

RECURSIVE RSum(_)
RSum(s) == IF s = <<>> THEN RInt(0) ELSE RAdd(Head(s), RSum(Tail(s)))

RECURSIVE SumInt(_)
SumInt(s) == IF s = <<>> THEN 0 ELSE Head(s) + SumInt(Tail(s))

RECURSIVE MinInt(_)
MinInt(s) == IF Len(s) = 1 THEN s[1]
             ELSE LET m == MinInt(Tail(s)) IN IF s[1] < m THEN s[1] ELSE m

RECURSIVE MaxInt(_)
MaxInt(s) == IF Len(s) = 1 THEN s[1]
             ELSE LET m == MaxInt(Tail(s)) IN IF s[1] > m THEN s[1] ELSE m

----------------------------------------------------------------------------
(* Python values                                                           *)

\* None
Absent == [kind |-> "absent"]

\* An exception that left the call.
Raised(exc) == [kind |-> "raise", exc |-> exc]

\* A light-curve dictionary {'g': ..., 'r': ..., 'times_g': ..., 'times_r': ...}.
LightCurve(g, r, times_g, times_r) ==
    [kind |-> "lc", g |-> g, r |-> r, times_g |-> times_g, times_r |-> times_r]

\* An empty light-curve dictionary as _parse_ztf_response starts it.
EmptyLC == LightCurve(<<>>, <<>>, <<>>, <<>>)

NoLC == [kind |-> "absent"]

IsLC(x) == x.kind = "lc"

\* Python truthiness of a light-curve value: None and {} are false.
Truthy(x) == IsLC(x)

----------------------------------------------------------------------------
(* analyze_brightness                                                      *)

HIGH_LIMIT == 1550

MEDIUM_LIMIT == 1650

LOW_LIMIT == 1700

\* np.mean of a non-empty array of magnitudes.
Mean(mags) == R(SumInt(mags), Len(mags))

\* np.std squared (the population variance): n*sum(m^2) - (sum m)^2 over n^2.
Variance(mags) ==
    LET n == Len(mags)
        sq == [i \in 1..n |-> mags[i] * mags[i]]
    IN  R(n * SumInt(sq) - SumInt(mags) * SumInt(mags), n * n)

PriorityMutHighInclusive(r_mean) ==
    IF ~IsNaN(r_mean)
    THEN IF RLe(r_mean, RInt(HIGH_LIMIT)) THEN "HIGH"
         ELSE IF RLt(r_mean, RInt(MEDIUM_LIMIT)) THEN "MEDIUM"
         ELSE IF RLt(r_mean, RInt(LOW_LIMIT)) THEN "LOW"
         ELSE "TOO_FAINT"
    ELSE "UNKNOWN"

\* Spectroscopy feasibility ranking.
Priority(r_mean) ==
    IF ~IsNaN(r_mean)
    THEN IF RLt(r_mean, RInt(HIGH_LIMIT)) THEN "HIGH"
         ELSE IF RLt(r_mean, RInt(MEDIUM_LIMIT)) THEN "MEDIUM"
         ELSE IF RLt(r_mean, RInt(LOW_LIMIT)) THEN "LOW"
         ELSE "TOO_FAINT"
    ELSE "UNKNOWN"

RStatsMutEmptyZero(mags_r) ==
    IF Len(mags_r) > 0
    THEN [mean |-> Mean(mags_r), min |-> RInt(MinInt(mags_r)),
          std2 |-> Variance(mags_r)]
    ELSE [mean |-> RInt(0), min |-> RInt(0), std2 |-> RInt(0)]

\* r_mean, r_min and r_std (kept as its square) of the r band.
RStats(mags_r) ==
    IF Len(mags_r) > 0
    THEN [mean |-> Mean(mags_r), min |-> RInt(MinInt(mags_r)),
          std2 |-> Variance(mags_r)]
    ELSE [mean |-> NaN, min |-> NaN, std2 |-> NaN]

analyze_brightness(lc_dict) ==
    IF ~Truthy(lc_dict) THEN Absent
    ELSE LET mags_g == lc_dict.g
             mags_r == lc_dict.r
             rs == RStats(mags_r)
             g_mean == IF Len(mags_g) > 0 THEN Mean(mags_g) ELSE NaN
             g_min == IF Len(mags_g) > 0 THEN RInt(MinInt(mags_g)) ELSE NaN
         IN  [kind |-> "result",
              r_mean |-> rs.mean, r_min |-> rs.min, r_std |-> rs.std2,
              g_mean |-> g_mean, g_min |-> g_min,
              priority |-> Priority(rs.mean)]

----------------------------------------------------------------------------
(* np.polyfit(x, y, 1)[0]                                                  *)

\* The set of outcomes of a degree-1 least-squares fit: the slope, or the
\* LinAlgError of numpy.linalg.lstsq.  On finite data the slope is the
\* ordinary least-squares one, computed on times shifted by x[1] and values
\* shifted by y[1] (the slope does not depend on the shifts).  When all x are equal the system is
\* rank-deficient and lstsq returns the minimum-norm solution of the
\* column-scaled system, whose slope is mean(y) / (2 x).  On data holding a
\* not-a-number or an infinity LAPACK either reports no convergence
\* (LinAlgError) or returns not-a-number coefficients, depending on the build.
PolyfitSlope(xs, ys) ==
    LET n == Len(xs)
        bad == \E i \in 1..n : ~IsFinite(xs[i]) \/ ~IsFinite(ys[i])
        us == Tuple([i \in 1..n |-> RSub(xs[i], xs[1])])
        vs == Tuple([i \in 1..n |-> RSub(ys[i], ys[1])])
        Su == RSum(us)
        Sy == RSum(vs)
        Suy == RSum([i \in 1..n |-> RMul(us[i], vs[i])])
        Suu == RSum([i \in 1..n |-> RMul(us[i], us[i])])
        den == RSub(RMul(RInt(n), Suu), RMul(Su, Su))
        nonfinite == {Raised("LinAlgError"), [kind |-> "ok", slope |-> NaN]}
    IN  IF bad THEN nonfinite
        ELSE IF den.num # 0
             THEN {[kind |-> "ok",
                    slope |-> RDiv(RSub(RMul(RInt(n), Suy), RMul(Su, Sy)), den)]}
        ELSE IF xs[1].num = 0 THEN nonfinite
        ELSE {[kind |-> "ok",
               slope |-> RDiv(RDiv(RSum(ys), RInt(n)), RMul(RInt(2), xs[1]))]}

RatSeq(s) == Tuple([i \in 1..Len(s) |-> RInt(s[i])])

----------------------------------------------------------------------------
(* analyze_fading                                                          *)

MIN_FADING_OBS == 5

DAYS_PER_YEAR == 365

\* 0.0001 mag/day, in hundredths of a magnitude per day.
DEAD_ZONE == R(1, 100)

\* 0.2 mag/year, in hundredths of a magnitude.
FADING_LIMIT == RInt(20)

STABLE == "STABLE"

FADING == "FADING (brightening in mag = getting dimmer)"

BRIGHTENING == "BRIGHTENING (dimming in mag = getting brighter)"

FadingStatusMutSwapped(slope) ==
    IF RLt(RAbs(slope), DEAD_ZONE) THEN STABLE
    ELSE IF RGt(slope, DEAD_ZONE) THEN BRIGHTENING
    ELSE FADING

\* Fading rate indicator.
FadingStatus(slope) ==
    IF RLt(RAbs(slope), DEAD_ZONE) THEN STABLE
    ELSE IF RGt(slope, DEAD_ZONE) THEN FADING
    ELSE BRIGHTENING

\* Flags any rise in magnitude as fading.
FadingResultMutAnyRise(slope, n) ==
    LET mag_change_1yr == RMul(slope, RInt(DAYS_PER_YEAR))
    IN  [kind |-> "result",
         slope_mag_per_day |-> slope,
         mag_change_1yr |-> mag_change_1yr,
         is_fading |-> RGt(mag_change_1yr, RInt(0)),
         status |-> FadingStatus(slope),
         n_observations |-> n]

FadingResult(slope, n) ==
    LET mag_change_1yr == RMul(slope, RInt(DAYS_PER_YEAR))
    IN  [kind |-> "result",
         slope_mag_per_day |-> slope,
         mag_change_1yr |-> mag_change_1yr,
         is_fading |-> RGt(mag_change_1yr, FADING_LIMIT),
         status |-> FadingStatus(slope),
         n_observations |-> n]

\* The set of outcomes of analyze_fading(lc_dict, object_name).
analyze_fading(lc_dict) ==
    IF ~Truthy(lc_dict) \/ Len(lc_dict.r) < MIN_FADING_OBS THEN {Absent}
    ELSE LET fits == PolyfitSlope(RatSeq(lc_dict.times_r), RatSeq(lc_dict.r))
         IN  {IF f.kind = "raise" THEN f
              ELSE FadingResult(f.slope, Len(lc_dict.r)) : f \in fits}

----------------------------------------------------------------------------
(* scipy.interpolate.interp1d(x, y, kind='linear', fill_value='extrapolate') *)

\* Stable insertion of the sample <<t, m>> into a list sorted by time.
RECURSIVE InsertByTime(_, _)
InsertByTime(p, s) ==
    IF s = <<>> THEN <<p>>
    ELSE IF p[1] < Head(s)[1] THEN <<p>> \o s
    ELSE <<Head(s)>> \o InsertByTime(p, Tail(s))

\* interp1d's argsort(x, kind="mergesort"): the samples in time order, equal
\* times keeping their input order.
RECURSIVE SortByTime(_, _)
SortByTime(times, mags) ==
    IF times = <<>> THEN <<>>
    ELSE LET n == Len(times)
         IN  InsertByTime(<<times[n], mags[n]>>,
                          SortByTime(SubSeq(times, 1, n - 1), SubSeq(mags, 1, n - 1)))

\* interp1d._call_linear at one point of the sorted samples s: searchsorted (side left) counts the
\* samples strictly before x_new, the index is clipped to 1..len-1, and the
\* line through the two neighbours is evaluated with IEEE arithmetic.
InterpLinear(s, x_new) ==
    LET n == Len(s)
        cnt == Cardinality({j \in 1..n : RLt(RInt(s[j][1]), x_new)})
        hi == IF cnt < 1 THEN 1 ELSE IF cnt > n - 1 THEN n - 1 ELSE cnt
        x_lo == RInt(s[hi][1])
        x_hi == RInt(s[hi + 1][1])
        y_lo == RInt(s[hi][2])
        y_hi == RInt(s[hi + 1][2])
        slope == RDiv(RSub(y_hi, y_lo), RSub(x_hi, x_lo))
    IN  RAdd(RMul(slope, RSub(x_new, x_lo)), y_lo)

\* np.linspace(start, stop, num), num >= 2.
Linspace(start, stop, num) ==
    Tuple([k \in 1..num |->
        RAdd(RInt(start), R((k - 1) * (stop - start), num - 1))])

----------------------------------------------------------------------------
(* analyze_color_evolution                                                 *)

MIN_COLOR_OBS == 3

MIN_BASELINE == 100

\* 0.1 mag/year, in hundredths of a magnitude.
COLOR_LIMIT == RInt(10)

\* Python's format(x, '.2f') of x hundredths: the sign and the rounded
\* (half to even) number of hundredths; 'nan' and 'inf' for the specials.
Format2f(x) ==
    IF IsNaN(x) THEN <<"nan", 0>>
    ELSE IF IsInf(x) THEN <<IF x.num < 0 THEN "-inf" ELSE "inf", 0>>
    ELSE LET a == Abs(x.num)
             q == a \div x.den
             rem == a % x.den
             digits == IF 2 * rem > x.den THEN q + 1
                       ELSE IF 2 * rem = x.den THEN q + (q % 2)
                       ELSE q
         IN  <<IF x.num < 0 THEN "-" ELSE "", digits>>

\* The status label, as its tokens: STABLE, or REDDENING / BLUEING followed
\* by the sign and the digits of the formatted yearly change.
ColorStatus(color_slope, color_change_1yr) ==
    IF RLt(RAbs(color_slope), DEAD_ZONE) THEN <<"STABLE">>
    ELSE IF RGt(color_slope, DEAD_ZONE)
    THEN <<"REDDENING", "+", Format2f(RAbs(color_change_1yr))[2]>>
    ELSE <<"BLUEING">> \o Format2f(color_change_1yr)

ColorResult(color_slope, color_gr, baseline) ==
    LET color_change_1yr == RMul(color_slope, RInt(DAYS_PER_YEAR))
    IN  [kind |-> "result",
         mean_color_gr |-> RDiv(RSum(color_gr), RInt(Len(color_gr))),
         color_slope_per_day |-> color_slope,
         color_change_1yr |-> color_change_1yr,
         is_significant_evolution |-> RGt(RAbs(color_change_1yr), COLOR_LIMIT),
         status |-> ColorStatus(color_slope, color_change_1yr),
         baseline_days |-> RInt(baseline)]

WindowMutUnion(lc_dict) ==
    LET lo_g == MinInt(lc_dict.times_g)
        lo_r == MinInt(lc_dict.times_r)
        hi_g == MaxInt(lc_dict.times_g)
        hi_r == MaxInt(lc_dict.times_r)
    IN  <<IF lo_g < lo_r THEN lo_g ELSE lo_r, IF hi_g > hi_r THEN hi_g ELSE hi_r>>

\* The window the two bands share: <<min_time, max_time>>.
Window(lc_dict) ==
    LET lo_g == MinInt(lc_dict.times_g)
        lo_r == MinInt(lc_dict.times_r)
        hi_g == MaxInt(lc_dict.times_g)
        hi_r == MaxInt(lc_dict.times_r)
    IN  <<IF lo_g > lo_r THEN lo_g ELSE lo_r, IF hi_g < hi_r THEN hi_g ELSE hi_r>>

\* A grid with as many points as the longer band has samples.
CommonTimesMutLongerBand(lc_dict) ==
    LET w == Window(lc_dict)
        n_g == Len(lc_dict.g)
        n_r == Len(lc_dict.r)
    IN  Linspace(w[1], w[2], IF n_g > n_r THEN n_g ELSE n_r)

\* common_times of a light curve that passed the length checks.
CommonTimes(lc_dict) ==
    LET w == Window(lc_dict)
        n_g == Len(lc_dict.g)
        n_r == Len(lc_dict.r)
    IN  Linspace(w[1], w[2], IF n_g < n_r THEN n_g ELSE n_r)

\* The set of outcomes of analyze_color_evolution(lc_dict).  With equally
\* long time and magnitude lists interp1d raises nothing, so the try block
\* always completes; np.polyfit runs after it, outside any handler.
analyze_color_evolution(lc_dict) ==
    IF ~Truthy(lc_dict) THEN {Absent}
    ELSE IF Len(lc_dict.g) < MIN_COLOR_OBS \/ Len(lc_dict.r) < MIN_COLOR_OBS
    THEN {Absent}
    ELSE LET w == Window(lc_dict)
         IN  IF w[2] - w[1] < MIN_BASELINE THEN {Absent}
             ELSE LET common_times == CommonTimes(lc_dict)
                      m == Len(common_times)
                      f_g == SortByTime(lc_dict.times_g, lc_dict.g)
                      f_r == SortByTime(lc_dict.times_r, lc_dict.r)
                      g_interp == Tuple([k \in 1..m |-> InterpLinear(f_g, common_times[k])])
                      r_interp == Tuple([k \in 1..m |-> InterpLinear(f_r, common_times[k])])
                      color_gr == Tuple([k \in 1..m |-> RSub(g_interp[k], r_interp[k])])
                      fits == PolyfitSlope(common_times, color_gr)
                  IN  {IF f.kind = "raise" THEN f
                       ELSE ColorResult(f.slope, color_gr, w[2] - w[1]) : f \in fits}

----------------------------------------------------------------------------
(* query_ztf_lightcurve, _parse_ztf_response, _generate_synthetic_lc       *)

\* str.lower() on the filter codes of the model.
Lower(code) == IF code = "R" THEN "r" ELSE IF code = "G" THEN "g" ELSE code

\* One pass of the loop body of _parse_ztf_response on the dictionary built
\* so far.  An entry that is no JSON object has no .get, and a filtercode
\* of null has no .lower(): both raise AttributeError.  A missing filtercode
\* key defaults to 'g'.  mag and mjd are <<>> for null or missing.
ParseObservation(lc_dict, observation) ==
    IF lc_dict.kind = "raise" THEN lc_dict
    ELSE IF observation.kind = "junk" \/ observation.filtercode = "NULL"
    THEN Raised("AttributeError")
    ELSE LET band == IF observation.filtercode = "MISSING" THEN "g"
                     ELSE Lower(observation.filtercode)
             mag == observation.mag
             mjd == observation.mjd
         IN  IF band \in {"g", "r"} /\ mag # <<>> /\ mjd # <<>>
             THEN IF band = "g"
                  THEN [lc_dict EXCEPT !.times_g = Append(@, mjd[1]),
                                       !.g = Append(@, mag[1])]
                  ELSE [lc_dict EXCEPT !.times_r = Append(@, mjd[1]),
                                       !.r = Append(@, mag[1])]
             ELSE lc_dict

RECURSIVE ParseLoop(_, _)
ParseLoop(lc_dict, ztf_data) ==
    IF ztf_data = <<>> THEN lc_dict
    ELSE ParseLoop(ParseObservation(lc_dict, Head(ztf_data)), Tail(ztf_data))

\* The parsed light curve, None when it holds no g and no r sample, or the
\* exception the loop raised.
_parse_ztf_response(ztf_data) ==
    LET lc_dict == ParseLoop(EmptyLC, ztf_data)
    IN  IF lc_dict.kind = "raise" THEN lc_dict
        ELSE IF lc_dict.g # <<>> \/ lc_dict.r # <<>> THEN lc_dict
        ELSE Absent

\* Earliest MJD of the modelled observations.
MJD0 == 58000

SeedSpace == 1024

Names == <<"J0001", "J0002">>

NameIndex(object_name) == CHOOSE i \in 1..Len(Names) : Names[i] = object_name

\* hash(object_name) of a str: a signed value that depends on the string and
\* on the interpreter's per-process hash randomisation.
Hash(object_name, salt) == (NameIndex(object_name) * 7919 + salt * 4409) - 9000

\* hash(object_name) % 2**32, in the model's seed space.
Seed(object_name, salt) == Hash(object_name, salt) % SeedSpace

SynMinObs == 5

SynObsSpread == 2

\* What the numpy generator seeded with `seed` draws in
\* _generate_synthetic_lc: the same number of g and r samples, each band's
\* times increasing within [58000, 59000), magnitudes made of a base level,
\* a linear fade and a bounded wiggle.  The draws are a fixed function of the
\* seed; sample counts are scaled from 30..149 to SynMinObs and up.
SyntheticCurve(seed) ==
    LET n == SynMinObs + (seed % SynObsSpread)
        times_g == [i \in 1..n |-> MJD0 + 100 * (i - 1) + 10 * ((seed \div 2) % 3)]
        times_r == [i \in 1..n |-> MJD0 + 100 * (i - 1) + 50 * ((seed \div 3) % 2)]
        base_r == 1300 + ((seed * 37) % 450)
        base_g == base_r - (((seed * 11) % 70) - 20)
        fade == ((seed * 13) % 50) - 30
        wiggle_g == [i \in 1..n |-> ((seed + 7 * i * i) % 21) - 10]
        wiggle_r == [i \in 1..n |-> ((seed + 5 * i * i + 3) % 21) - 10]
    IN  LightCurve(Tuple([i \in 1..n |-> base_g + wiggle_g[i] + fade * (i - 1)]),
                   Tuple([i \in 1..n |-> base_r + wiggle_r[i] + fade * (i - 1)]),
                   Tuple(times_g), Tuple(times_r))

\* np.random.seed(hash(object_name) % 2**32) and the curve drawn after it.
_generate_synthetic_lc(object_name, salt) ==
    [seed |-> Seed(object_name, salt),
     ret |-> SyntheticCurve(Seed(object_name, salt))]

\* What value[kind] a network attempt can have.  "response" carries the
\* status code and the body: invalid JSON, JSON null, an object without a
\* 'result' key, a 'result' that is no list, or a 'result' list.
FailedAttempts ==
    {[kind |-> "ConnectionError"], [kind |-> "Timeout"],
     [kind |-> "response", status |-> 404, json |-> "invalid", result |-> <<>>],
     [kind |-> "response", status |-> 500, json |-> "invalid", result |-> <<>>],
     [kind |-> "response", status |-> 200, json |-> "invalid", result |-> <<>>],
     [kind |-> "response", status |-> 200, json |-> "null", result |-> <<>>],
     [kind |-> "response", status |-> 200, json |-> "no_result", result |-> <<>>],
     [kind |-> "response", status |-> 200, json |-> "result_not_list", result |-> <<>>]}

Response200(result) ==
    [kind |-> "response", status |-> 200, json |-> "ok", result |-> result]

\* query_ztf_lightcurve(ra, dec, object_name) given the outcome `attempt` of its
\* network attempt: what it returns, the value it leaves in
\* self.use_real_data and the seed it gave numpy (<<>> when it gave none).
query_ztf_lightcurve(attempt, object_name, salt, requests, urd) ==
    LET syn == _generate_synthetic_lc(object_name, salt)
        fallback(flag) == [ret |-> syn.ret, use_real_data |-> flag, np_seed |-> <<syn.seed>>]
    IN  IF ~requests THEN fallback(urd)
        ELSE IF attempt.kind # "response" THEN fallback(urd)
        ELSE IF attempt.status # 200 THEN fallback(urd)
        ELSE IF attempt.json # "ok" THEN fallback(urd)
        ELSE IF Len(attempt.result) = 0 THEN fallback(urd)
        ELSE LET parsed == _parse_ztf_response(attempt.result)
             IN  IF parsed.kind = "raise" THEN fallback(TRUE)
                 ELSE [ret |-> parsed, use_real_data |-> TRUE, np_seed |-> <<>>]

\* The log of synthetic light curves after a query that returned q: a call
\* that seeded numpy returned the synthetic curve.
Logged(log, q, object_name, salt) ==
    IF q.np_seed = <<>> THEN log
    ELSE log \cup {[object_name |-> object_name, hash_salt |-> salt, curve |-> q.ret]}

----------------------------------------------------------------------------
(* Bounded input domains of the analyzers                                  *)

MagSpread == 1

MaxObsB == 3

MaxStep == 2

MaxGap == 2

MaxStepC == 2

SeqsUpTo(S, n) == UNION {[1..k -> S] : k \in 0..n}

\* One observation every 100 days from MJD0, as many as there are magnitudes.
RegularTimes(n) == [i \in 1..n |-> MJD0 + 100 * (i - 1)]

\* Magnitudes around the three priority thresholds.
BMags == {L + d : L \in {HIGH_LIMIT, MEDIUM_LIMIT, LOW_LIMIT},
                  d \in (-MagSpread)..MagSpread}

\* Light curves with up to MaxObsB r samples and at most one g sample.
BrightnessInputs(l) ==
    \/ l = NoLC
    \/ \E n \in 0..MaxObsB : \E r \in [1..n -> BMags] : \E g \in {<<>>, <<HIGH_LIMIT>>} :
          l = LightCurve(g, r, RegularTimes(Len(g)), RegularTimes(n))

GenTimes == {MJD0 + 100 * k : k \in 0..MaxStep}

GenMags == {1400, 1402}

\* r bands of up to MIN_FADING_OBS samples in any time order, repeated
\* times included.
GeneralRBands(l) ==
    \E n \in 0..MIN_FADING_OBS : \E t \in [1..n -> GenTimes] : \E m \in [1..n -> GenMags] :
       l = LightCurve(<<>>, m, <<>>, t)

RECURSIVE Cumulative(_, _)
Cumulative(first, steps) ==
    IF steps = <<>> THEN <<first>>
    ELSE <<first>> \o Cumulative(first + Head(steps), Tail(steps))

Reverse(s) == [i \in 1..Len(s) |-> s[Len(s) + 1 - i]]

Gaps == {100 * k : k \in 1..MaxGap}

Incs == {1, 2, 30}

\* r bands of MIN_FADING_OBS samples at strictly increasing times whose
\* magnitude rises (dir = 1) or falls (dir = -1) at every step, listed in
\* time order or in reverse.
MonotoneRBands(l) ==
    \E gaps \in [1..(MIN_FADING_OBS - 1) -> Gaps] :
    \E incs \in [1..(MIN_FADING_OBS - 1) -> Incs] :
    \E dir \in {1, -1} : \E rev \in BOOLEAN :
       LET mags == Cumulative(1500, [i \in 1..(MIN_FADING_OBS - 1) |-> dir * incs[i]])
           times == Cumulative(MJD0, gaps)
       IN  l = LightCurve(<<>>, IF rev THEN Reverse(mags) ELSE mags,
                          <<>>, IF rev THEN Reverse(times) ELSE times)

\* r bands of MIN_FADING_OBS samples that all carry the timestamp 0.
ZeroTimeRBands(l) ==
    \E m \in [1..MIN_FADING_OBS -> GenMags] :
       l = LightCurve(<<>>, m, <<>>, [i \in 1..MIN_FADING_OBS |-> 0])

FadingInputs(l) ==
    l = NoLC \/ GeneralRBands(l) \/ MonotoneRBands(l) \/ ZeroTimeRBands(l)

CTimes == {MJD0 + 100 * k : k \in 0..MaxStepC}

GMags == {1500, 1501}

RMags == {1400, 1410}

\* Light curves with any number of samples per band up to MIN_COLOR_OBS + 1
\* (not in both bands at once), each band in time order with repeated times
\* allowed, the magnitude constant in each band.
UnevenColorInputs(l) ==
    \E n_g \in 0..(MIN_COLOR_OBS + 1) : \E n_r \in 0..(IF n_g > MIN_COLOR_OBS THEN MIN_COLOR_OBS ELSE MIN_COLOR_OBS + 1) :
    \E tg \in [1..n_g -> CTimes] : \E tr \in [1..n_r -> CTimes] :
       /\ \A i \in 1..(n_g - 1) : tg[i] <= tg[i + 1]
       /\ \A i \in 1..(n_r - 1) : tr[i] <= tr[i + 1]
       /\ l = LightCurve([i \in 1..n_g |-> 1500], [i \in 1..n_r |-> 1400], tg, tr)

\* Light curves with MIN_COLOR_OBS samples per band in any time order,
\* repeated times included.
ColorInputs(l) ==
    \/ l = NoLC
    \/ UnevenColorInputs(l)
    \/ \E g \in [1..MIN_COLOR_OBS -> GMags] : \E r \in [1..MIN_COLOR_OBS -> RMags] :
       \E tg \in [1..MIN_COLOR_OBS -> CTimes] : \E tr \in [1..MIN_COLOR_OBS -> CTimes] :
          l = LightCurve(g, r, tg, tr)

----------------------------------------------------------------------------
(* The analyzers called on their own                                       *)

NoReport == [kind |-> "absent"]

NoAttempt == [kind |-> "none"]

NotRun == [kind |-> "notrun"]

Catalog(rows) == [exists |-> TRUE, rows |-> rows]

NoFile == [exists |-> FALSE, rows |-> <<>>]

\* An analyzer that consumed its input: the r band loses its first sample.
UntouchedMutConsumesInput ==
    /\ lc' = IF IsLC(lc) /\ Len(lc.r) > 0
             THEN [lc EXCEPT !.r = Tail(@), !.times_r = Tail(@)]
             ELSE lc
    /\ UNCHANGED <<use_real_data, has_requests, net, hash_salt, np_seed,
                   sources_df, idx, results, acquired, brightness, fading, color_evol,
                   report, synth_log>>

\* The part of the state a bare analyzer call does not touch.
Untouched ==
    UNCHANGED <<lc, use_real_data, has_requests, net, hash_salt, np_seed,
                sources_df, idx, results, acquired, brightness, fading, color_evol,
                report, synth_log>>

\* The state before a bare analyzer call, the light curve apart.
InitAnalyzer ==
    /\ pc = "call"
    /\ out = Absent
    /\ use_real_data = FALSE
    /\ has_requests = TRUE
    /\ net = NoAttempt
    /\ hash_salt = 0
    /\ np_seed = -1
    /\ sources_df = Catalog(<<>>)
    /\ idx = 0
    /\ results = <<>>
    /\ acquired = <<>>
    /\ brightness = NotRun
    /\ fading = NotRun
    /\ color_evol = NotRun
    /\ report = NoReport
    /\ synth_log = {}

CallBrightness ==
    /\ pc \in {"call", "ret"}
    /\ out' = analyze_brightness(lc)
    /\ pc' = "ret"
    /\ Untouched

CallFading ==
    /\ pc \in {"call", "ret"}
    /\ \E o \in analyze_fading(lc) : out' = o
    /\ pc' = "ret"
    /\ Untouched

CallColor ==
    /\ pc \in {"call", "ret"}
    /\ \E o \in analyze_color_evolution(lc) : out' = o
    /\ pc' = "ret"
    /\ Untouched

InitBrightness == BrightnessInputs(lc) /\ InitAnalyzer

InitFading == FadingInputs(lc) /\ InitAnalyzer

InitColor == ColorInputs(lc) /\ InitAnalyzer

SpecBrightness == InitBrightness /\ [][CallBrightness]_vars

SpecFading == InitFading /\ [][CallFading]_vars

SpecColor == InitColor /\ [][CallColor]_vars

----------------------------------------------------------------------------
(* analyze_source                                                          *)

\* Row i of the filtered catalog, as source.to_dict() gives it.
Source(i) ==
    [Objname |-> Names[i], RAdeg |-> 80 + i, DEdeg |-> 20 + i,
     YSO_CLASS |-> "ClassII", W2magMean |-> 900 + i]

UNKNOWN == "UNKNOWN"

SourceAnalysisMutOmitBaseline(source_dict, b, f, c) ==
    LET head == [Objname |-> source_dict.Objname,
                 RAdeg |-> source_dict.RAdeg,
                 DEdeg |-> source_dict.DEdeg,
                 YSO_CLASS |-> source_dict.YSO_CLASS,
                 W2magMean |-> source_dict.W2magMean,
                 r_mean |-> IF b.kind = "result" THEN b.r_mean ELSE NaN,
                 r_priority |-> IF b.kind = "result" THEN b.priority ELSE UNKNOWN,
                 fading_mag_per_year |-> IF f.kind = "result" THEN f.mag_change_1yr ELSE NaN,
                 is_fading |-> IF f.kind = "result" THEN f.is_fading ELSE FALSE,
                 fading_status |-> IF f.kind = "result" THEN f.status ELSE UNKNOWN,
                 color_change_1yr |-> IF c.kind = "result" THEN c.color_change_1yr ELSE NaN,
                 is_reddening_bluing |->
                     IF c.kind = "result" THEN c.is_significant_evolution ELSE FALSE,
                 color_status |-> IF c.kind = "result" THEN c.status ELSE <<UNKNOWN>>]
    IN  IF c.kind = "result" THEN head @@ [baseline_days |-> c.baseline_days]
        ELSE head

\* The dictionary analyze_source returns, from the catalog row and the three
\* analyzer outputs; `x if d else default` takes the default for None.
SourceAnalysis(source_dict, b, f, c) ==
    [Objname |-> source_dict.Objname,
     RAdeg |-> source_dict.RAdeg,
     DEdeg |-> source_dict.DEdeg,
     YSO_CLASS |-> source_dict.YSO_CLASS,
     W2magMean |-> source_dict.W2magMean,
     r_mean |-> IF b.kind = "result" THEN b.r_mean ELSE NaN,
     r_priority |-> IF b.kind = "result" THEN b.priority ELSE UNKNOWN,
     fading_mag_per_year |-> IF f.kind = "result" THEN f.mag_change_1yr ELSE NaN,
     is_fading |-> IF f.kind = "result" THEN f.is_fading ELSE FALSE,
     fading_status |-> IF f.kind = "result" THEN f.status ELSE UNKNOWN,
     color_change_1yr |-> IF c.kind = "result" THEN c.color_change_1yr ELSE NaN,
     is_reddening_bluing |->
         IF c.kind = "result" THEN c.is_significant_evolution ELSE FALSE,
     color_status |-> IF c.kind = "result" THEN c.status ELSE <<UNKNOWN>>,
     baseline_days |-> IF c.kind = "result" THEN c.baseline_days ELSE NaN]

Returns(fields) == [kind |-> "record", fields |-> fields]

analyze_sourceMutPartialRecord(source_dict, lc_data) ==
    IF ~Truthy(lc_data)
    THEN {[ret |-> Returns(SourceAnalysis(source_dict, Absent, Absent, Absent)),
           brightness |-> NotRun, fading |-> NotRun, color_evol |-> NotRun]}
    ELSE LET b == analyze_brightness(lc_data)
         IN  UNION {
                 IF f.kind = "raise"
                 THEN {[ret |-> f, brightness |-> b, fading |-> f, color_evol |-> NotRun]}
                 ELSE {[ret |-> IF c.kind = "raise" THEN c
                                ELSE Returns(SourceAnalysis(source_dict, b, f, c)),
                        brightness |-> b, fading |-> f, color_evol |-> c] :
                       c \in analyze_color_evolution(lc_data)} :
                 f \in analyze_fading(lc_data)}

\* The set of outcomes of analyze_source from the query's return value on:
\* what it returns (a record, None, or the exception that left it) and its
\* locals brightness, fading and color_evol (NotRun when the call ended
\* before the assignment).
analyze_source(source_dict, lc_data) ==
    IF ~Truthy(lc_data)
    THEN {[ret |-> Absent, brightness |-> NotRun, fading |-> NotRun, color_evol |-> NotRun]}
    ELSE LET b == analyze_brightness(lc_data)
         IN  UNION {
                 IF f.kind = "raise"
                 THEN {[ret |-> f, brightness |-> b, fading |-> f, color_evol |-> NotRun]}
                 ELSE {[ret |-> IF c.kind = "raise" THEN c
                                ELSE Returns(SourceAnalysis(source_dict, b, f, c)),
                        brightness |-> b, fading |-> f, color_evol |-> c] :
                       c \in analyze_color_evolution(lc_data)} :
                 f \in analyze_fading(lc_data)}

----------------------------------------------------------------------------
(* query_ztf_lightcurve called on its own (SpecQuery)                      *)

MaxSalt == 1

MaxRespObs == 2

QCodes == {"g", "r", "R", "zr", "MISSING", "NULL"}

QMags == {<<>>, <<1500>>, <<1600>>}

QTimes == {<<>>, <<MJD0>>, <<MJD0 + 100>>}

Junk == [kind |-> "junk", filtercode |-> "", mag |-> <<>>, mjd |-> <<>>]

Observation(filtercode, mag, mjd) ==
    [kind |-> "obs", filtercode |-> filtercode, mag |-> mag, mjd |-> mjd]

QEntries == {Junk} \cup {Observation(c, m, t) : c \in QCodes, m \in QMags, t \in QTimes}

QueryAttempts ==
    FailedAttempts \cup {Response200(l) : l \in SeqsUpTo(QEntries, MaxRespObs)}

InitQuery ==
    /\ pc = "call"
    /\ lc = NoLC
    /\ out = Absent
    /\ use_real_data = FALSE
    /\ has_requests \in BOOLEAN
    /\ net = NoAttempt
    /\ hash_salt \in 0..MaxSalt
    /\ np_seed = -1
    /\ sources_df \in {Catalog(<<Source(i)>>) : i \in 1..Len(Names)}
    /\ idx = 0
    /\ results = <<>>
    /\ acquired = <<>>
    /\ brightness = NotRun
    /\ fading = NotRun
    /\ color_evol = NotRun
    /\ report = NoReport
    /\ synth_log = {}

\* One call of query_ztf_lightcurve for the catalog row; without the
\* requests library no attempt is made.
CallQuery ==
    /\ pc = "call"
    /\ \E a \in IF has_requests THEN QueryAttempts ELSE {NoAttempt} :
          LET q == query_ztf_lightcurve(a, sources_df.rows[1].Objname, hash_salt,
                                        has_requests, use_real_data)
          IN  /\ net' = a
              /\ out' = q.ret
              /\ lc' = q.ret
              /\ use_real_data' = q.use_real_data
              /\ np_seed' = IF q.np_seed = <<>> THEN np_seed ELSE q.np_seed[1]
              /\ synth_log' = Logged(synth_log, q, sources_df.rows[1].Objname, hash_salt)
    /\ pc' = "ret"
    /\ UNCHANGED <<has_requests, hash_salt, sources_df, idx, results, acquired,
                   brightness, fading, color_evol, report>>

SpecQuery == InitQuery /\ [][CallQuery]_vars

----------------------------------------------------------------------------
(* Repeated acquisitions, in one interpreter process or in several          *)

\* What the network attempt of an acquisition can be here: every failing
\* outcome, or a response with one usable observation.
ReproAttempts ==
    FailedAttempts \cup {Response200(<<Observation("r", <<1500>>, <<MJD0>>)>>)}

InitRepro ==
    /\ pc = "call"
    /\ lc = NoLC
    /\ out = Absent
    /\ use_real_data = FALSE
    /\ has_requests \in BOOLEAN
    /\ net = NoAttempt
    /\ hash_salt \in 0..MaxSalt
    /\ np_seed = -1
    /\ sources_df = Catalog([i \in 1..Len(Names) |-> Source(i)])
    /\ idx = 0
    /\ results = <<>>
    /\ acquired = <<>>
    /\ brightness = NotRun
    /\ fading = NotRun
    /\ color_evol = NotRun
    /\ report = NoReport
    /\ synth_log = {}

\* One call of query_ztf_lightcurve for any row of the catalog.
Acquire ==
    /\ pc = "call"
    /\ \E i \in 1..Len(sources_df.rows) :
       \E a \in IF has_requests THEN ReproAttempts ELSE {NoAttempt} :
          LET object_name == sources_df.rows[i].Objname
              q == query_ztf_lightcurve(a, object_name, hash_salt,
                                        has_requests, use_real_data)
          IN  /\ net' = a
              /\ out' = q.ret
              /\ lc' = q.ret
              /\ use_real_data' = q.use_real_data
              /\ np_seed' = IF q.np_seed = <<>> THEN np_seed ELSE q.np_seed[1]
              /\ synth_log' = Logged(synth_log, q, object_name, hash_salt)
    /\ UNCHANGED <<pc, has_requests, hash_salt, sources_df, idx, results, acquired,
                   brightness, fading, color_evol, report>>

\* The interpreter exits and a new one starts: string hashing gets a new
\* randomisation (PYTHONHASHSEED unset), numpy's global generator and the
\* ZTFAnalyzer are new.
NewProcess ==
    /\ pc = "call"
    /\ hash_salt' \in 0..MaxSalt
    /\ use_real_data' = FALSE
    /\ np_seed' = -1
    /\ lc' = NoLC
    /\ out' = Absent
    /\ net' = NoAttempt
    /\ UNCHANGED <<pc, has_requests, sources_df, idx, results, acquired,
                   brightness, fading, color_evol, report, synth_log>>

NextRepro == Acquire \/ NewProcess

SpecRepro == InitRepro /\ [][NextRepro]_vars

----------------------------------------------------------------------------
(* main()                                                                  *)

MaxSources == 2

\* The g then the r samples of a light curve as the entries of a response.
ObsOf(curve) ==
    [i \in 1..Len(curve.g) |-> Observation("g", <<curve.g[i]>>, <<curve.times_g[i]>>)]
    \o [i \in 1..Len(curve.r) |-> Observation("r", <<curve.r[i]>>, <<curve.times_r[i]>>)]

\* A band of n samples 100 days apart whose magnitude changes by inc per
\* sample; with dup the second sample repeats the time of the first.
Ramp(n, first, inc, dup) ==
    [mags |-> [i \in 1..n |-> first + inc * (i - 1)],
     times |-> [i \in 1..n |-> IF dup /\ i = 2 THEN MJD0 ELSE MJD0 + 100 * (i - 1)]]

PoolR == {Ramp(0, 1500, 0, FALSE), Ramp(3, 1700, 0, FALSE),
          Ramp(5, 1500, 1, FALSE), Ramp(5, 1500, 30, FALSE)}

PoolG == {Ramp(0, 1600, 0, FALSE), Ramp(3, 1600, 0, FALSE),
          Ramp(3, 1600, 30, FALSE), Ramp(3, 1600, 0, TRUE)}

PoolCurves == {LightCurve(g.mags, r.mags, g.times, r.times) : g \in PoolG, r \in PoolR}

\* What the network attempt of one analyze_source call can be in the batch:
\* a timeout, an error status, a response carrying one of the pool's light
\* curves, or a response whose only entry is in another band.
BatchAttempts ==
    {[kind |-> "Timeout"],
     [kind |-> "response", status |-> 404, json |-> "invalid", result |-> <<>>],
     Response200(<<Observation("zr", <<1500>>, <<MJD0>>)>>)}
    \cup {Response200(ObsOf(curve)) : curve \in PoolCurves}

Init ==
    /\ pc = "main"
    /\ lc = NoLC
    /\ out = Absent
    /\ use_real_data = FALSE
    /\ has_requests \in BOOLEAN
    /\ net = NoAttempt
    /\ hash_salt \in 0..MaxSalt
    /\ np_seed = -1
    /\ sources_df \in {NoFile} \cup
          {Catalog(rows) : rows \in SeqsUpTo({Source(i) : i \in 1..Len(Names)}, MaxSources)}
    /\ idx = 0
    /\ results = <<>>
    /\ acquired = <<>>
    /\ brightness = NotRun
    /\ fading = NotRun
    /\ color_evol = NotRun
    /\ report = NoReport
    /\ synth_log = {}

\* main() up to the loop: without filtered_sources.csv it prints an error
\* and returns; otherwise it reads the catalog and builds the analyzer.
MainLoad ==
    /\ pc = "main"
    /\ pc' = IF sources_df.exists THEN "loop" ELSE "done"
    /\ UNCHANGED <<lc, out, use_real_data, has_requests, net, hash_salt, np_seed,
                   sources_df, idx, results, acquired, brightness, fading, color_evol,
                   report, synth_log>>

\* One pass of the batch loop: analyze_source on the next row, its record
\* appended when it is not None.  An exception leaves main().
MainAnalyze ==
    /\ pc = "loop"
    /\ idx < Len(sources_df.rows)
    /\ \E a \in IF has_requests THEN BatchAttempts ELSE {NoAttempt} :
          LET source_dict == sources_df.rows[idx + 1]
              q == query_ztf_lightcurve(a, source_dict.Objname, hash_salt,
                                        has_requests, use_real_data)
          IN  /\ net' = a
              /\ lc' = q.ret
              /\ acquired' = Append(acquired, Truthy(q.ret))
              /\ synth_log' = Logged(synth_log, q, source_dict.Objname, hash_salt)
              /\ use_real_data' = q.use_real_data
              /\ np_seed' = IF q.np_seed = <<>> THEN np_seed ELSE q.np_seed[1]
              /\ \E analysis \in analyze_source(source_dict, q.ret) :
                    /\ out' = analysis.ret
                    /\ brightness' = analysis.brightness
                    /\ fading' = analysis.fading
                    /\ color_evol' = analysis.color_evol
                    /\ results' = IF analysis.ret.kind = "record"
                                  THEN Append(results, analysis.ret.fields)
                                  ELSE results
                    /\ pc' = IF analysis.ret.kind = "raise" THEN "crashed" ELSE "loop"
    /\ idx' = idx + 1
    /\ UNCHANGED <<has_requests, hash_salt, sources_df, report>>

\* len(df[mask]): the number of rows whose mask entry is true.
CountRows(mask) == Cardinality({i \in 1..Len(mask) : mask[i]})

MINUTES_PER_SPECTRUM == 15

\* The reporting section of main() on a non-empty result list.
BatchReport(rows) ==
    LET IsHigh(x) == x.r_priority = "HIGH"
        IsMedium(x) == x.r_priority = "MEDIUM"
        IsFading(x) == x.is_fading
        NotFading(x) == ~x.is_fading
        Evolves(x) == x.is_reddening_bluing
        Reddens(x) == x.is_reddening_bluing /\ RGt(x.color_change_1yr, RInt(0))
        Blues(x) == x.is_reddening_bluing /\ RLt(x.color_change_1yr, RInt(0))
        Visible(x) == RLt(x.r_mean, RInt(LOW_LIMIT))
        HighFading(x) == IsHigh(x) /\ x.is_fading
        HighEvolves(x) == IsHigh(x) /\ x.is_reddening_bluing
        Count(P(_)) == CountRows([i \in 1..Len(rows) |-> P(rows[i])])
    IN  [kind |-> "report",
         analyzed |-> Len(rows),
         high_priority |-> Count(IsHigh),
         fading_sources |-> Count(IsFading),
         brightening |-> Count(NotFading),
         color_evol |-> Count(Evolves),
         reddening |-> Count(Reddens),
         blueing |-> Count(Blues),
         visible |-> Count(Visible),
         visible_percent |-> R(Count(Visible) * 100, Len(rows)),
         high_fading |-> Count(HighFading),
         high_color |-> Count(HighEvolves),
         medium |-> Count(IsMedium),
         total_hours |-> R(Count(IsHigh) * MINUTES_PER_SPECTRUM, 60)]

\* main() after the loop.  pd.DataFrame([]) has no columns, so with no
\* record the first column lookup, results_df['r_priority'], raises KeyError.
MainReport ==
    /\ pc = "loop"
    /\ idx = Len(sources_df.rows)
    /\ IF results = <<>>
       THEN /\ report' = Raised("KeyError")
            /\ pc' = "crashed"
       ELSE /\ report' = BatchReport(results)
            /\ pc' = "done"
    /\ UNCHANGED <<lc, out, use_real_data, has_requests, net, hash_salt, np_seed,
                   sources_df, idx, results, acquired, brightness, fading, color_evol,
                   synth_log>>

Next == MainLoad \/ MainAnalyze \/ MainReport

Spec == Init /\ [][Next]_vars

----------------------------------------------------------------------------
(* The analyzers called repeatedly on one light curve                       *)

\* Light curves on which the analyzers are called repeatedly: no light
\* curve, the light curves of the batch, and r bands the fit cannot handle.
RepeatInputs(l) ==
    \/ l = NoLC
    \/ l \in PoolCurves
    \/ ZeroTimeRBands(l)

InitRepeat == RepeatInputs(lc) /\ InitAnalyzer

\* What a repeated call can give when the previous call of the same analyzer
\* on the same input gave prev: both ran on one numpy build, so a fit on
\* data the build rejects with LinAlgError is rejected again, and a fit it
\* carries through is carried through again.
SameBuild(prev, outcomes) ==
    {o \in outcomes : (o.kind = "raise") <=> (prev.kind = "raise")}

\* Where the caller stands after a call of the named analyzer: behind a
\* first call of it on this light curve, or behind a call that repeated the
\* call before it.
Again(name) == name \o "_again"

After(name) == IF pc \in {name, Again(name)} THEN Again(name) ELSE name

RepeatBrightness ==
    /\ out' = analyze_brightness(lc)
    /\ pc' = After("brightness")
    /\ Untouched

RepeatFading ==
    /\ \E o \in IF After("fading") = Again("fading")
                 THEN SameBuild(out, analyze_fading(lc))
                 ELSE analyze_fading(lc) : out' = o
    /\ pc' = After("fading")
    /\ Untouched

RepeatColor ==
    /\ \E o \in IF After("color") = Again("color")
                 THEN SameBuild(out, analyze_color_evolution(lc))
                 ELSE analyze_color_evolution(lc) : out' = o
    /\ pc' = After("color")
    /\ Untouched

NextRepeat == RepeatBrightness \/ RepeatFading \/ RepeatColor

SpecRepeat == InitRepeat /\ [][NextRepeat]_vars

----------------------------------------------------------------------------
(* Claims about analyze_brightness (SpecBrightness)                        *)

Returned == pc = "ret"

\* C1: whenever the r band is non-empty, the priority is the tier of the
\* r-band mean m: m < 15.5 HIGH, 15.5 <= m < 16.5 MEDIUM, 16.5 <= m < 17.0
\* LOW, m >= 17.0 TOO_FAINT (the mean is sum/n, so m < L is sum < L*n).
C1_PriorityThresholds ==
    (Returned /\ IsLC(lc) /\ Len(lc.r) > 0) =>
        LET sum == SumInt(lc.r)
            n == Len(lc.r)
        IN  /\ (sum < 1550 * n) => out.priority = "HIGH"
            /\ (1550 * n <= sum /\ sum < 1650 * n) => out.priority = "MEDIUM"
            /\ (1650 * n <= sum /\ sum < 1700 * n) => out.priority = "LOW"
            /\ (1700 * n <= sum) => out.priority = "TOO_FAINT"

\* Two different magnitudes whose mean is exactly 15.5 were ranked MEDIUM.
C1_Witness ==
    /\ Returned /\ IsLC(lc) /\ Len(lc.r) = 2
    /\ lc.r[1] # lc.r[2]
    /\ lc.r[1] + lc.r[2] = 3100
    /\ out.priority = "MEDIUM"

\* C9: the priority is UNKNOWN exactly when the r band has no sample; then
\* r_mean, r_min and r_std are not-a-number; with at least one sample the
\* priority is one of HIGH, MEDIUM, LOW, TOO_FAINT.
C9_UnknownIffEmpty ==
    (Returned /\ IsLC(lc)) =>
        /\ (out.priority = "UNKNOWN") <=> (Len(lc.r) = 0)
        /\ (Len(lc.r) = 0) =>
              IsNaN(out.r_mean) /\ IsNaN(out.r_min) /\ IsNaN(out.r_std)
        /\ (Len(lc.r) > 0) =>
              out.priority \in {"HIGH", "MEDIUM", "LOW", "TOO_FAINT"}

\* A light curve with g samples but no r sample was ranked UNKNOWN.
C9_Witness ==
    /\ Returned /\ IsLC(lc) /\ Len(lc.r) = 0 /\ Len(lc.g) > 0
    /\ out.priority = "UNKNOWN" /\ IsNaN(out.r_mean) /\ ~IsNaN(out.g_mean)

----------------------------------------------------------------------------
(* Claims about analyze_fading (SpecFading)                                *)

\* The r band has at least MIN_FADING_OBS samples at pairwise different
\* times and its magnitude rises (dir = 1) or falls (dir = -1) with time.
StrictlyMonotone(l, dir) ==
    /\ IsLC(l)
    /\ Len(l.r) >= MIN_FADING_OBS
    /\ \A i, j \in 1..Len(l.r) :
          /\ (i # j) => l.times_r[i] # l.times_r[j]
          /\ (l.times_r[i] < l.times_r[j]) => dir * l.r[i] < dir * l.r[j]

\* C3: |slope| < 0.0001 gives STABLE; outside the dead zone (|slope| >=
\* 0.0001, the value 0.0001 included) a positive slope gives FADING and a
\* negative one BRIGHTENING.
C3_DeadZoneRule ==
    (Returned /\ out.kind = "result") =>
        LET slope == out.slope_mag_per_day
        IN  /\ RLt(RAbs(slope), DEAD_ZONE) => out.status = STABLE
            /\ RLe(DEAD_ZONE, slope) => out.status = FADING
            /\ RLe(slope, RNeg(DEAD_ZONE)) => out.status = BRIGHTENING

\* C4 as stated: a strictly increasing magnitude gives FADING and a positive
\* yearly change, a strictly decreasing one BRIGHTENING and a negative one.
C4_SignConvention ==
    Returned =>
        /\ StrictlyMonotone(lc, 1) =>
              out.status = FADING /\ RGt(out.mag_change_1yr, RInt(0))
        /\ StrictlyMonotone(lc, -1) =>
              out.status = BRIGHTENING /\ RLt(out.mag_change_1yr, RInt(0))

\* C4 amended: a strictly increasing magnitude gives a positive yearly
\* change, with status FADING when the slope exceeds 0.0001 and STABLE when
\* it is below 0.0001; a strictly decreasing one gives a negative yearly
\* change, with status BRIGHTENING when the slope is at most -0.0001 and
\* STABLE when it is above -0.0001.
C4_SignConventionOutsideDeadZone ==
    Returned =>
        /\ StrictlyMonotone(lc, 1) =>
              /\ out.kind = "result"
              /\ RGt(out.mag_change_1yr, RInt(0))
              /\ RGt(out.slope_mag_per_day, DEAD_ZONE) => out.status = FADING
              /\ RLt(out.slope_mag_per_day, DEAD_ZONE) => out.status = STABLE
        /\ StrictlyMonotone(lc, -1) =>
              /\ out.kind = "result"
              /\ RLt(out.mag_change_1yr, RInt(0))
              /\ RLe(out.slope_mag_per_day, RNeg(DEAD_ZONE)) => out.status = BRIGHTENING
              /\ RGt(out.slope_mag_per_day, RNeg(DEAD_ZONE)) => out.status = STABLE

\* A light curve whose magnitude rises at every step, but by less than
\* 0.0001 mag/day overall, was classified STABLE with a positive yearly change.
C4_Witness ==
    /\ Returned /\ StrictlyMonotone(lc, 1)
    /\ out.status = STABLE
    /\ RGt(out.mag_change_1yr, RInt(0))

----------------------------------------------------------------------------
(* Claims about analyze_color_evolution (SpecColor)                        *)

\* C5: |slope| < 0.0001 gives STABLE, otherwise a positive slope gives
\* REDDENING and a negative one BLUEING; the label carries the signed yearly
\* change slope*365 ('+' and its size for REDDENING, '-' and its size for
\* BLUEING); is_significant_evolution is true exactly when |slope*365| > 0.1.
C5_ColorStatusRule ==
    (Returned /\ out.kind = "result") =>
        LET slope == out.color_slope_per_day
            change == RMul(slope, RInt(DAYS_PER_YEAR))
            outside == ~RLt(RAbs(slope), DEAD_ZONE)
        IN  /\ RLt(RAbs(slope), DEAD_ZONE) => out.status = <<"STABLE">>
            /\ (outside /\ RGt(slope, RInt(0))) =>
                  out.status = <<"REDDENING", "+", Format2f(RAbs(change))[2]>>
            /\ (outside /\ RLt(slope, RInt(0))) =>
                  out.status = <<"BLUEING", "-", Format2f(RAbs(change))[2]>>
            /\ out.color_change_1yr = change
            /\ out.is_significant_evolution <=> RGt(RAbs(change), COLOR_LIMIT)

----------------------------------------------------------------------------
(* Claims about query_ztf_lightcurve (SpecQuery)                           *)

\* An entry that passes the filter of _parse_ztf_response: a g or r band (a
\* missing filtercode counts as g) with a magnitude and a time.
Usable(o) ==
    /\ o.kind = "obs"
    /\ o.filtercode \in {"g", "G", "r", "R", "MISSING"}
    /\ o.mag # <<>>
    /\ o.mjd # <<>>

Malformed(o) == o.kind = "junk" \/ o.filtercode = "NULL"

\* The failing outcomes of the network attempt that C2 lists.
IsFailingOutcome(a) ==
    \/ a.kind \in {"none", "ConnectionError", "Timeout"}
    \/ a.status # 200
    \/ a.json # "ok"
    \/ Len(a.result) = 0
    \/ \E i \in 1..Len(a.result) : Malformed(a.result[i])
    \/ \A i \in 1..Len(a.result) : ~Usable(a.result[i])

\* C2: after any failing outcome of the network attempt the call returns the
\* synthetic light curve of the object name (it raises nothing and returns
\* no absent light curve).
C2_FallbackOnEveryFailure ==
    (Returned /\ IsFailingOutcome(net)) =>
        out = SyntheticCurve(Seed(sources_df.rows[1].Objname, hash_salt))

----------------------------------------------------------------------------
(* Claims about analyze_source and main() (Spec)                           *)

C8_EmptyResultSetTolerated ==
    (sources_df.exists /\ pc \in {"done", "crashed"} /\ out.kind # "raise"
       /\ results = <<>>)
    => /\ pc = "done"
       /\ report.kind = "report"
       /\ report.analyzed = 0
       /\ report.high_priority = 0
       /\ report.visible = 0

RecordFields ==
    {"Objname", "RAdeg", "DEdeg", "YSO_CLASS", "W2magMean", "r_mean", "r_priority",
     "fading_mag_per_year", "is_fading", "fading_status", "color_change_1yr",
     "is_reddening_bluing", "color_status", "baseline_days"}

\* C10: every record has the same fourteen fields, and an analyzer that
\* returned no result shows as its unknown values: not-a-number for r_mean,
\* fading_mag_per_year, color_change_1yr and baseline_days, UNKNOWN for the
\* three status fields, false for the two flags.
C10_UniformSchema ==
    /\ \A i \in 1..Len(results) : DOMAIN results[i] = RecordFields
    /\ (out.kind = "record") =>
          /\ DOMAIN out.fields = RecordFields
          /\ (brightness.kind # "result") =>
                IsNaN(out.fields.r_mean) /\ out.fields.r_priority = "UNKNOWN"
          /\ (fading.kind # "result") =>
                /\ IsNaN(out.fields.fading_mag_per_year)
                /\ out.fields.is_fading = FALSE
                /\ out.fields.fading_status = "UNKNOWN"
          /\ (color_evol.kind # "result") =>
                /\ IsNaN(out.fields.color_change_1yr)
                /\ IsNaN(out.fields.baseline_days)
                /\ out.fields.is_reddening_bluing = FALSE
                /\ out.fields.color_status = <<"UNKNOWN">>

\* A record was returned and appended although neither the fading nor the
\* colour analyzer produced a result.
C10_Witness ==
    /\ out.kind = "record"
    /\ Len(results) >= 1
    /\ results[Len(results)] = out.fields
    /\ brightness.kind = "result"
    /\ fading.kind = "absent"
    /\ color_evol.kind = "absent"
    /\ out.fields.fading_status = "UNKNOWN"
    /\ IsNaN(out.fields.baseline_days)

\* The rows among the first Len(flags) whose flag is true, in order.
RECURSIVE Kept(_, _)
Kept(flags, rows) ==
    IF flags = <<>> THEN <<>>
    ELSE (IF Head(flags) THEN <<Head(rows)>> ELSE <<>>) \o Kept(Tail(flags), Tail(rows))

\* No exception has left analyze_source in this run of main().
NoAnalysisRaised == out.kind # "raise"

\* C11: a source whose acquisition returned absent gets absent from
\* analyze_source and no record; as long as no analysis raised, the result
\* set holds exactly one record for each source analysed so far whose
\* acquisition returned a light curve, in catalog order, every pass of the
\* loop analysed the next row once, and main() ends only after the last row.
C11_AbsentAcquisitionExcluded ==
    NoAnalysisRaised =>
        /\ Len(acquired) = idx
        /\ idx <= Len(sources_df.rows)
        /\ (idx > 0 /\ ~acquired[idx]) => out = Absent
        /\ (idx > 0 /\ acquired[idx]) => out.kind = "record"
        /\ LET kept == Kept(acquired, sources_df.rows)
           IN  /\ Len(results) = Len(kept)
               /\ \A k \in 1..Len(kept) :
                     /\ results[k].Objname = kept[k].Objname
                     /\ results[k].RAdeg = kept[k].RAdeg
                     /\ results[k].DEdeg = kept[k].DEdeg
        /\ (sources_df.exists /\ pc \in {"done", "crashed"}) => idx = Len(sources_df.rows)

\* The loop ended on a two-row catalog whose first acquisition returned
\* absent and whose second returned a light curve: one record, the second row's.
C11_Witness ==
    /\ pc = "done"
    /\ Len(sources_df.rows) = 2
    /\ acquired = <<FALSE, TRUE>>
    /\ Len(results) = 1
    /\ results[1].Objname = sources_df.rows[2].Objname
    /\ sources_df.rows[1].Objname # sources_df.rows[2].Objname

----------------------------------------------------------------------------
(* Further claims about analyze_color_evolution (SpecColor)                *)

\* C12: the call returns absent when either band has fewer than 3 samples,
\* and when the window shared by the two bands (from the later of the two
\* earliest times to the earlier of the two latest times) is shorter than
\* 100 days, whatever the sample counts; a result has baseline_days >= 100.
C12_ColorAbsence ==
    (Returned /\ IsLC(lc)) =>
        /\ (Len(lc.g) < 3 \/ Len(lc.r) < 3) => out = Absent
        /\ (Len(lc.g) >= 3 /\ Len(lc.r) >= 3) =>
              LET start == IF MinInt(lc.times_g) > MinInt(lc.times_r)
                           THEN MinInt(lc.times_g) ELSE MinInt(lc.times_r)
                  end == IF MaxInt(lc.times_g) < MaxInt(lc.times_r)
                         THEN MaxInt(lc.times_g) ELSE MaxInt(lc.times_r)
              IN  /\ (end - start < 100) => out = Absent
                  /\ (out.kind = "result") =>
                        /\ out.baseline_days = RInt(end - start)
                        /\ end - start >= 100

\* Four g samples and three r samples whose time spans do not meet (the g
\* band ends before the r band starts): absent.
C12_Witness ==
    /\ Returned /\ IsLC(lc)
    /\ Len(lc.g) = 4 /\ Len(lc.r) = 3
    /\ MaxInt(lc.times_g) < MinInt(lc.times_r)
    /\ out = Absent

----------------------------------------------------------------------------
(* Further claims about analyze_fading (SpecFading)                        *)

\* C13: the call returns absent for an absent light curve and for fewer
\* than 5 r samples, and a result (not absent, no exception) for 5 or more.
C13_FadingAbsentIffFewSamples ==
    Returned =>
        IF ~IsLC(lc) \/ Len(lc.r) < 5 THEN out = Absent
        ELSE out.kind = "result"

\* C15: a call of analyze_source leaves the state of the ZTFAnalyzer as it
\* found it, so that no later call can see what an earlier one did.
C15_AnalyzerStateUntouched ==
    [][MainAnalyze => use_real_data' = use_real_data]_vars

\* C17: when analyze_color_evolution gets past its length and window
\* checks, its time grid has min(count_g, count_r) points, starts at the
\* start and ends at the end of the shared window with equal steps between
\* neighbours, and every grid point lies between the earliest and the latest
\* timestamp of the g band and of the r band.
C17_GridWithinBothBands ==
    (Returned /\ out # Absent) =>
        LET common_times == CommonTimes(lc)
            w == Window(lc)
            n == Len(common_times)
            Within(t, times) == /\ RLe(RInt(MinInt(times)), t)
                                /\ RLe(t, RInt(MaxInt(times)))
        IN  /\ n = (IF Len(lc.g) < Len(lc.r) THEN Len(lc.g) ELSE Len(lc.r))
            /\ common_times[1] = RInt(w[1])
            /\ common_times[n] = RInt(w[2])
            /\ \A k \in 1..(n - 1) :
                  RSub(common_times[k + 1], common_times[k]) = R(w[2] - w[1], n - 1)
            /\ \A k \in 1..n : /\ Within(common_times[k], lc.times_g)
                               /\ Within(common_times[k], lc.times_r)

\* A grid was built for bands of different lengths of which one starts
\* later than the other.
C17_Witness ==
    /\ Returned
    /\ out.kind = "result"
    /\ Len(lc.g) # Len(lc.r)
    /\ MinInt(lc.times_g) < MinInt(lc.times_r)

\* C18: in every record analyze_source returned, is_fading true goes with
\* the FADING status; is_reddening_bluing true goes with a colour status that
\* starts with REDDENING or BLUEING, REDDENING exactly when color_change_1yr
\* is positive; and r_priority UNKNOWN goes with fading_status and
\* color_status both UNKNOWN.
C18_FlagsAgreeWithStatus ==
    \A i \in 1..Len(results) :
        LET record == results[i]
        IN  /\ record.is_fading => record.fading_status = FADING
            /\ record.is_reddening_bluing =>
                  /\ record.color_status[1] \in {"REDDENING", "BLUEING"}
                  /\ (record.color_status[1] = "REDDENING")
                        <=> RGt(record.color_change_1yr, RInt(0))
            /\ (record.r_priority = UNKNOWN) =>
                  /\ record.fading_status = UNKNOWN
                  /\ record.color_status = <<UNKNOWN>>

\* The batch returned a fading source whose colour turns bluer and a
\* source whose colour turns redder.
C18_Witness ==
    \E i, j \in 1..Len(results) :
        /\ results[i].is_fading
        /\ results[i].is_reddening_bluing
        /\ results[i].color_status[1] = "BLUEING"
        /\ results[j].is_reddening_bluing
        /\ results[j].color_status[1] = "REDDENING"

----------------------------------------------------------------------------
(* Claims about repeated analyzer calls (SpecRepeat)                       *)

----------------------------------------------------------------------------
(* Claims about repeated acquisitions (SpecRepro)                          *)

\* C14: any two synthetic light curves returned for the same object name
\* are identical, whatever was acquired in between and whichever process
\* made each of them.
C14_SyntheticReproducible ==
    \A a, b \in synth_log :
        (a.object_name = b.object_name) => a.curve = b.curve

=============================================================================
